---- MODULE Spec2Model ----
(***************************************************************************)
(* State-machine model of unified_model_caller: the Service enumeration    *)
(* (enums.py), the error classes (errors.py) and the LLMCaller facade with *)
(* its provider adapters (core.py).                                        *)
(*                                                                         *)
(* Python text is modelled as a sequence of one-character strings, so that *)
(* str.lower(), the `in` substring test and f-string formatting are        *)
(* computed rather than assumed.  The vendor SDKs and the HTTP transport   *)
(* are external: every call into them is a nondeterministic choice among   *)
(* the responses and exceptions listed below.                              *)
(*                                                                         *)
(* core.py line 5 imports the name ModelOverloadedError from errors.py,    *)
(* which does not define it (see ErrorsModule / CoreImportedErrors).  The  *)
(* model of the LLMCaller class body takes the names it uses as bound, so  *)
(* that the adapters' own behaviour can be examined.                       *)
(***************************************************************************)
EXTENDS Naturals, Sequences, FiniteSets

(* ------------------------------ bounds -------------------------------- *)

\* Number of call() invocations started over a behaviour.
MaxCalls == 2

\* Number of characters dropped from / appended to a canonical service name
\* when building near-miss service names.
MaxAffix == 1

Threads == {"t1", "t2"}

(* ---------------------------- Python text ----------------------------- *)

UpperChars == <<"A","B","C","D","E","F","G","H","I","J","K","L","M","N","O","P","Q","R","S","T","U","V","W","X","Y","Z">>
LowerChars == <<"a","b","c","d","e","f","g","h","i","j","k","l","m","n","o","p","q","r","s","t","u","v","w","x","y","z">>

LowerChar(c) ==
  IF \E i \in 1..Len(UpperChars) : UpperChars[i] = c
  THEN LowerChars[CHOOSE i \in 1..Len(UpperChars) : UpperChars[i] = c]
  ELSE c

UpperChar(c) ==
  IF \E i \in 1..Len(LowerChars) : LowerChars[i] = c
  THEN UpperChars[CHOOSE i \in 1..Len(LowerChars) : LowerChars[i] = c]
  ELSE c

\* str.lower()
Lower(s) == [i \in 1..Len(s) |-> LowerChar(s[i])]

\* str.upper()
Upper(s) == [i \in 1..Len(s) |-> UpperChar(s[i])]

\* needle in hay
Contains(hay, needle) ==
  \E k \in 0..Len(hay) :
    /\ k + Len(needle) <= Len(hay)
    /\ \A i \in 1..Len(needle) : hay[k + i] = needle[i]

PyNone == [tag |-> "None"]
PyStr(s) == [tag |-> "str", s |-> s]

\* An exception object: its class, str(e), and __cause__.
Exc(kind, msg, cause) == [kind |-> kind, msg |-> msg, cause |-> cause]

Return(v) == [tag |-> "return", value |-> v]
Raise(e) == [tag |-> "raise", exc |-> e]
NoOutcome == [tag |-> "none"]

(* ------------------------------ errors.py ------------------------------ *)

\* The exception classes errors.py defines.
ErrorsModule == {"InvalidServiceError", "InvalidModelError", "ApiCallError"}

\* The names core.py imports from errors.py.
CoreImportedErrors == {"ApiCallError", "ModelOverloadedError"}

\* The exception classes enums.py and core.py raise by name from errors.py.
NamedErrorKinds == {"InvalidServiceError"} \cup CoreImportedErrors

(* ------------------------------ enums.py ------------------------------- *)

\* class Service(str, enum.Enum): the members in definition order.
Service == <<
  [name |-> "AristoteOnMyDocker", value |-> <<"A","r","i","s","t","o","t","e","O","n","M","y","D","o","c","k","e","r">>],
  [name |-> "Anthropic",          value |-> <<"A","n","t","h","r","o","p","i","c">>],
  [name |-> "OpenAI",             value |-> <<"O","p","e","n","A","I">>],
  [name |-> "Google",             value |-> <<"G","o","o","g","l","e">>],
  [name |-> "xAI",                value |-> <<"x","A","I">>] >>

ServiceNames == {Service[i].name : i \in 1..Len(Service)}

\* Service.__str__
ServiceStr(S) == Service[CHOOSE i \in 1..Len(Service) : Service[i].name = S].value

\* Service.from_str (faulty variant): accepts a name that a member value starts with.
from_str_prefix(s) ==
  LET hits == {i \in 1..Len(Service) :
                 /\ Len(s) <= Len(Service[i].value)
                 /\ Len(s) > 0
                 /\ SubSeq(Lower(Service[i].value), 1, Len(s)) = Lower(s)}
  IN  IF hits = {}
      THEN Raise(Exc("InvalidServiceError", <<"'">> \o s \o <<"'"," ","i","s"," ","n","o","t"," ","a"," ","v","a","l","i","d"," ","s","e","r","v","i","c","e">>, PyNone))
      ELSE Return(Service[CHOOSE i \in hits : \A j \in hits : i <= j].name)

\* Service.from_str: the first member whose lower-cased value equals s.lower().
from_str(s) ==
  LET hits == {i \in 1..Len(Service) : Lower(Service[i].value) = Lower(s)}
  IN  IF hits = {}
      THEN Raise(Exc("InvalidServiceError", <<"'">> \o s \o <<"'"," ","i","s"," ","n","o","t"," ","a"," ","v","a","l","i","d"," ","s","e","r","v","i","c","e">>, PyNone))
      ELSE Return(Service[CHOOSE i \in hits : \A j \in hits : i <= j].name)

\* Service.requires_token
requires_token(S) == IF S = "AristoteOnMyDocker" THEN FALSE ELSE TRUE

\* service_cooldown, in ms: the dictionary as its set of (key, value) items.
service_cooldown == {
  <<"AristoteOnMyDocker", 0>>,
  <<"Anthropic", 5000>>,
  <<"OpenAI", 5000>>,
  <<"Google", 5000>>,
  <<"xAI", 5000>> }

\* service_cooldown[S]: the value, or KeyError when S is no key.
CooldownLookup(S) ==
  IF \E kv \in service_cooldown : kv[1] = S
  THEN Return((CHOOSE kv \in service_cooldown : kv[1] = S)[2])
  ELSE Raise(Exc("KeyError", ServiceStr(S), PyNone))

(* --------------------- core.py: handler registration ------------------- *)

\* LLMCaller.__dict__ in definition order: each member with the _services
\* attribute the _handler decorator gave it (<<>> standing for no attribute).
ClassDict == <<
  [name |-> "_handlers",         decorated |-> FALSE, services |-> <<>>],
  [name |-> "__init__",          decorated |-> FALSE, services |-> <<>>],
  [name |-> "_dispatch",         decorated |-> FALSE, services |-> <<>>],
  [name |-> "_call_openai",      decorated |-> TRUE,  services |-> <<"OpenAI">>],
  [name |-> "_call_anthropic",   decorated |-> TRUE,  services |-> <<"Anthropic">>],
  [name |-> "_call_google",      decorated |-> TRUE,  services |-> <<"Google">>],
  [name |-> "_call_aristote",    decorated |-> TRUE,  services |-> <<"AristoteOnMyDocker">>],
  [name |-> "_call_xai",         decorated |-> TRUE,  services |-> <<"xAI">>],
  [name |-> "_call_unsupported", decorated |-> FALSE, services |-> <<>>],
  [name |-> "wait_cooldown",     decorated |-> FALSE, services |-> <<>>],
  [name |-> "call",              decorated |-> FALSE, services |-> <<>>] >>

\* cls._handlers[service] = member, for each service of one member.
RECURSIVE RegisterServices(_, _, _)
RegisterServices(handlers, member, k) ==
  IF k > Len(member.services) THEN handlers
  ELSE RegisterServices(
         [S \in (DOMAIN handlers) \cup {member.services[k]} |->
            IF S = member.services[k] THEN member.name ELSE handlers[S]],
         member, k + 1)

RECURSIVE CollectFrom(_, _, _)
CollectFrom(dict, handlers, n) ==
  IF n > Len(dict) THEN handlers
  ELSE CollectFrom(dict,
         IF dict[n].decorated THEN RegisterServices(handlers, dict[n], 1) ELSE handlers,
         n + 1)

\* _collect_handlers: the registry, a dictionary from Service to member name.
CollectHandlers(dict) == CollectFrom(dict, [S \in {} |-> "none"], 1)

(* ------------------ the external provider capabilities ----------------- *)

Hello == <<"h","e","l","l","o">>
Overloaded == <<"o","v","e","r","l","o","a","d","e","d">>

\* Exception classes of the vendor SDKs and of the transport:
\* ResourceExhausted and TooManyRequests are google.api_core.exceptions,
\* RateLimitError is the openai / anthropic SDK's, ConnectionError the transport's.

\* isinstance(e, cls): ResourceExhausted derives from TooManyRequests, and
\* every class from Exception.
IsInstance(e, cls) ==
  \/ cls = "Exception"
  \/ e.kind = cls
  \/ (e.kind = "ResourceExhausted" /\ cls = "TooManyRequests")

IsOverloadedText == <<"M","o","d","e","l"," ","i","s"," ","O","V","E","R","L","O","A","D","E","D">>
BoomText == <<"b","o","o","m">>

\* The exceptions an external invocation may raise, each with a message that
\* mentions overload (in capitals) or one that does not.
\* The google SDK: its structured quota / rate-limit errors and a transport error.
GoogleErrors == {
  Exc("ResourceExhausted", BoomText, PyNone),
  Exc("TooManyRequests", IsOverloadedText, PyNone),
  Exc("TooManyRequests", BoomText, PyNone),
  Exc("ConnectionError", IsOverloadedText, PyNone),
  Exc("ConnectionError", BoomText, PyNone) }

\* The openai, anthropic and xai SDKs: a structured rate-limit error and a
\* transport error.
SdkErrors == {
  Exc("RateLimitError", BoomText, PyNone),
  Exc("ConnectionError", IsOverloadedText, PyNone),
  Exc("ConnectionError", BoomText, PyNone) }

\* requests.post / response.json()
TransportErrors == {
  Exc("ConnectionError", IsOverloadedText, PyNone),
  Exc("ConnectionError", BoomText, PyNone) }

\* What one external invocation answers: an exception or a response object.
Failure(e) == [tag |-> "raise", exc |-> e]
Response(r) == [tag |-> "response", body |-> r]

Choice(content) == [message |-> [content |-> content]]

\* openai: response.choices[i].message.content
OpenAIOutcomes ==
  {Failure(e) : e \in SdkErrors} \cup
  {Response([choices |-> c]) :
     c \in {<<>>, <<Choice(PyNone)>>, <<Choice(PyStr(Hello))>>, <<Choice(PyStr(<<>>))>>}}

\* anthropic: response.content, a list of blocks with a type and, for text, a text
ToolBlock == [type |-> "tool_use", text |-> <<>>]
TextBlock(s) == [type |-> "text", text |-> s]
AnthropicOutcomes ==
  {Failure(e) : e \in SdkErrors} \cup
  {Response([content |-> c]) :
     c \in {<<>>, <<ToolBlock>>, <<TextBlock(Hello)>>, <<ToolBlock, TextBlock(Hello)>>}}

\* google.genai: genai.Client(...) may itself raise; response.text is nullable
GoogleOutcomes ==
  {[tag |-> "client_raise", exc |-> Exc("ValueError", BoomText, PyNone)]} \cup
  {Failure(e) : e \in GoogleErrors} \cup
  {Response([text |-> t]) : t \in {PyNone, PyStr(<<>>), PyStr(Hello)}}

\* xai_sdk: chat.create(...).sample().content
XaiOutcomes ==
  {Failure(e) : e \in SdkErrors} \cup
  {Response([content |-> t]) : t \in {PyStr(<<>>), PyStr(Hello)}}

\* requests.post(...).json(): a dict whose keys may be missing
JsonList(items) == [tag |-> "list", items |-> items]
JsonDict(content) == [tag |-> "dict", content |-> content]
AristoteOutcomes ==
  {Failure(e) : e \in TransportErrors} \cup
  {Response([choices |-> c]) :
     c \in {PyNone, JsonList(<<>>), JsonList(<<[message |-> PyNone]>>),
            JsonList(<<[message |-> JsonDict(PyNone)]>>),
            JsonList(<<[message |-> JsonDict(PyStr(Hello))]>>)}}

(* ------------------------ core.py: the adapters ------------------------ *)

\* The single-turn request every adapter builds.
Request(self, prompt) ==
  [model |-> self.model, messages |-> <<[role |-> "user", content |-> prompt]>>]

\* What running an adapter did: its result, the lines it printed, the
\* requests it sent to the provider.
Ran(result, printed, sent) == [result |-> result, printed |-> printed, sent |-> sent]

IndexError == Exc("IndexError", <<"l","i","s","t"," ","i","n","d","e","x"," ","o","u","t"," ","o","f"," ","r","a","n","g","e">>, PyNone)

\* LLMCaller._call_openai
_call_openai(self, prompt, outcome) ==
  LET req == Request(self, prompt) IN
  IF outcome.tag = "raise" THEN Ran(Raise(outcome.exc), <<>>, <<req>>)
  ELSE LET choices == outcome.body.choices IN
       IF Len(choices) = 0 THEN Ran(Raise(IndexError), <<>>, <<req>>)
       ELSE LET res == choices[1].message.content IN
            IF res = PyNone
            THEN Ran(Raise(Exc("ApiCallError",
                   <<"T","h","e"," ","c","a","l","l"," ","t","o"," ","t","h","e"," ","O","p","e","n","A","I","'","s"," ">>
                   \o self.model \o
                   <<" ","m","o","d","e","l"," ","d","i","d","n","'","t"," ","p","r","o","v","i","d","e"," ","a","n","y"," ","t","e","x","t"," ","r","e","s","u","l","t">>,
                   PyNone)), <<>>, <<req>>)
            ELSE Ran(Return(res), <<>>, <<req>>)

\* LLMCaller._call_anthropic
_call_anthropic(self, prompt, outcome) ==
  LET req == Request(self, prompt) IN
  IF outcome.tag = "raise" THEN Ran(Raise(outcome.exc), <<>>, <<req>>)
  ELSE LET content == outcome.body.content
           text_resps == SelectSeq(content, LAMBDA resp : resp.type = "text")
       IN  IF Len(text_resps) = 0
           THEN Ran(Raise(Exc("ApiCallError",
                  <<"T","h","e"," ","c","a","l","l"," ","t","o"," ","t","h","e"," ","A","n","t","h","r","o","p","i","c"," ">>
                  \o self.model \o
                  <<" ","m","o","d","e","l"," ","d","i","d","n","'","t"," ","p","r","o","v","i","d","e"," ","a","n","y"," ","t","e","x","t"," ","r","e","s","p","o","n","s","e">>,
                  PyNone)), <<>>, <<req>>)
           ELSE Ran(Return(PyStr(text_resps[1].text)), <<>>, <<req>>)

GeminiOverloaded == <<"G","e","m","i","n","i"," ","m","o","d","e","l"," ","o","v","e","r","l","o","a","d","e","d",":"," ">>
GeminiFailed == <<"G","e","m","i","n","i"," ","A","P","I"," ","c","a","l","l"," ","f","a","i","l","e","d",":"," ">>
GeminiPrint == <<"E","r","r","o","r"," ","c","o","m","m","u","n","i","c","a","t","i","n","g"," ","w","i","t","h"," ","G","e","m","i","n","i"," ","A","P","I",":"," ">>

\* The except clauses of _call_google, in order.
GoogleExcept(e) ==
  IF IsInstance(e, "ResourceExhausted")
  THEN [result |-> Raise(Exc("ModelOverloadedError", GeminiOverloaded \o e.msg, e)), printed |-> <<>>]
  ELSE IF IsInstance(e, "TooManyRequests")
  THEN IF Contains(Lower(e.msg), Overloaded)
       THEN [result |-> Raise(Exc("ModelOverloadedError", GeminiOverloaded \o e.msg, e)), printed |-> <<>>]
       ELSE [result |-> Raise(Exc("ApiCallError", GeminiFailed \o e.msg, e)), printed |-> <<>>]
  ELSE IF Contains(Lower(e.msg), Overloaded)
       THEN [result |-> Raise(Exc("ModelOverloadedError", GeminiOverloaded \o e.msg, e)), printed |-> <<>>]
       ELSE [result |-> Raise(Exc("ApiCallError", GeminiFailed \o e.msg, e)),
             printed |-> <<[by |-> "_call_google", line |-> GeminiPrint \o e.msg]>>]

\* LLMCaller._call_google (faulty variant): an overloaded model is asked a second time.
_call_google_retrying(self, prompt, outcome) ==
  LET req == Request(self, prompt) IN
  IF outcome.tag = "client_raise" THEN Ran(Raise(outcome.exc), <<>>, <<>>)
  ELSE IF outcome.tag = "raise"
  THEN LET x == GoogleExcept(outcome.exc) IN
       Ran(x.result, x.printed,
           IF x.result.exc.kind = "ModelOverloadedError" THEN <<req, req>> ELSE <<req>>)
  ELSE LET text == outcome.body.text IN
       Ran(Return(IF text = PyNone \/ text = PyStr(<<>>) THEN PyStr(<<>>) ELSE text), <<>>, <<req>>)

\* LLMCaller._call_google
_call_google(self, prompt, outcome) ==
  LET req == Request(self, prompt) IN
  IF outcome.tag = "client_raise" THEN Ran(Raise(outcome.exc), <<>>, <<>>)
  ELSE IF outcome.tag = "raise"
  THEN LET x == GoogleExcept(outcome.exc) IN Ran(x.result, x.printed, <<req>>)
  ELSE LET text == outcome.body.text IN
       \* response.text or ""
       Ran(Return(IF text = PyNone \/ text = PyStr(<<>>) THEN PyStr(<<>>) ELSE text), <<>>, <<req>>)

NotSubscriptable == Exc("TypeError", <<"'","N","o","n","e","T","y","p","e","'"," ","o","b","j","e","c","t"," ","i","s"," ","n","o","t"," ","s","u","b","s","c","r","i","p","t","a","b","l","e">>, PyNone)
NoAttributeGet == Exc("AttributeError", <<"'","N","o","n","e","T","y","p","e","'"," ","o","b","j","e","c","t"," ","h","a","s"," ","n","o"," ","a","t","t","r","i","b","u","t","e"," ","'","g","e","t","'">>, PyNone)

\* LLMCaller._call_aristote
_call_aristote(self, prompt, outcome) ==
  LET req == Request(self, prompt) IN
  IF outcome.tag = "raise" THEN Ran(Raise(outcome.exc), <<>>, <<req>>)
  ELSE LET choices == outcome.body.choices IN
       IF choices = PyNone THEN Ran(Raise(NotSubscriptable), <<>>, <<req>>)
       ELSE IF Len(choices.items) = 0 THEN Ran(Raise(IndexError), <<>>, <<req>>)
       ELSE LET message == choices.items[1].message IN
            IF message = PyNone THEN Ran(Raise(NoAttributeGet), <<>>, <<req>>)
            ELSE Ran(Return(message.content), <<>>, <<req>>)

\* LLMCaller._call_xai
_call_xai(self, prompt, outcome) ==
  LET req == Request(self, prompt) IN
  IF outcome.tag = "raise" THEN Ran(Raise(outcome.exc), <<>>, <<req>>)
  ELSE Ran(Return(outcome.body.content), <<>>, <<req>>)

\* LLMCaller._call_unsupported: not decorated, so never registered.
_call_unsupported(self, prompt) ==
  Ran(Raise(Exc("NotImplementedError",
        <<"T","h","e"," ","s","e","r","v","i","c","e"," ","'">> \o ServiceStr(self.service) \o
        <<"'"," ","i","s"," ","r","e","c","o","g","n","i","z","e","d"," ","b","u","t"," ","n","o","t"," ","y","e","t"," ","i","m","p","l","e","m","e","n","t","e","d",".">>,
        PyNone)), <<>>, <<>>)

(* ----------------------- core.py: the facade --------------------------- *)

NoFacade == [tag |-> "none"]

\* LLMCaller.__init__ (faulty variant): the model name is normalised before it is stored.
__init___normalising(service, model, api_key) ==
  LET arg == Lower(service)
      r == from_str(arg)
  IN  [lookup |-> [tag |-> "called", arg |-> arg, res |-> r],
       result |-> IF r.tag = "raise" THEN r
                  ELSE Return([tag |-> "LLMCaller", service |-> r.value,
                               model |-> Lower(model), api_key |-> api_key])]

\* LLMCaller.__init__: the from_str call it makes, and the instance or the
\* exception that leaves it.
__init__(service, model, api_key) ==
  LET arg == Lower(service)
      r == from_str(arg)
  IN  [lookup |-> [tag |-> "called", arg |-> arg, res |-> r],
       result |-> IF r.tag = "raise" THEN r
                  ELSE Return([tag |-> "LLMCaller", service |-> r.value,
                               model |-> model, api_key |-> api_key])]

NoHandlerPrefix == <<"D","i","d","n","'","t"," ","f","i","n","d"," ","a","n"," ","a","p","p","r","o","p","r","i","a","t","e"," ","h","a","n","d","l","e","r"," ","f","o","r"," ","t","h","e"," ">>
NoHandlerSuffix == <<" ","s","e","r","v","i","c","e">>

\* LLMCaller._dispatch (faulty variant): an OpenAI-compatible service is routed to the
\* OpenAI adapter whatever the registry holds.
_dispatch_compatible(self, handlers) ==
  IF self.service \in {"OpenAI", "xAI"}
  THEN [handler |-> "_call_openai", error |-> NoOutcome]
  ELSE IF self.service \in DOMAIN handlers
  THEN [handler |-> handlers[self.service], error |-> NoOutcome]
  ELSE [handler |-> "none",
        error |-> Raise(Exc("RuntimeError",
                    NoHandlerPrefix \o ServiceStr(self.service) \o NoHandlerSuffix, PyNone))]

\* LLMCaller._dispatch, up to the handler's invocation: self._handlers.get(...)
\* and the RuntimeError raised when it gives None.
_dispatch(self, handlers) ==
  IF self.service \in DOMAIN handlers
  THEN [handler |-> handlers[self.service], error |-> NoOutcome]
  ELSE [handler |-> "none",
        error |-> Raise(Exc("RuntimeError",
                    NoHandlerPrefix \o ServiceStr(self.service) \o NoHandlerSuffix, PyNone))]

CallLogPrefix == <<"A","n"," ","e","r","r","o","r"," ","o","c","c","u","r","r","e","d"," ","w","h","i","l","e"," ","c","a","l","l","i","n","g"," ","t","h","e"," ">>
CallLogInfix == <<" ","A","P","I",":"," ">>

\* The except clause of call (faulty variant): the error is wrapped before it is raised.
call_except_wrapping(self, e) ==
  [printed |-> <<[by |-> "call",
                  line |-> CallLogPrefix \o ServiceStr(self.service) \o CallLogInfix \o e.msg]>>,
   result |-> Raise(Exc("ApiCallError", e.msg, e))]

\* The except clause of call: print one line, then `raise e`.
call_except(self, e) ==
  [printed |-> <<[by |-> "call",
                  line |-> CallLogPrefix \o ServiceStr(self.service) \o CallLogInfix \o e.msg]>>,
   result |-> Raise(e)]

\* time.sleep(seconds): the time the calling thread is blocked, in ms.
time_sleep(seconds) == (seconds[1] * 1000) \div seconds[2]

\* LLMCaller.wait_cooldown (faulty variant): the cooldown is passed to sleep undivided.
wait_cooldown_undivided(self) ==
  LET cooldown == CooldownLookup(self.service)
  IN  IF cooldown.tag = "raise" THEN [result |-> cooldown, slept |-> <<>>]
      ELSE [result |-> Return(PyNone), slept |-> <<time_sleep(<<cooldown.value, 1>>)>>]

\* LLMCaller.wait_cooldown: service_cooldown[self.service], then
\* time.sleep(cooldown/1000), the quotient kept as the fraction cooldown/1000.
wait_cooldown(self) ==
  LET cooldown == CooldownLookup(self.service)
  IN  IF cooldown.tag = "raise" THEN [result |-> cooldown, slept |-> <<>>]
      ELSE [result |-> Return(PyNone), slept |-> <<time_sleep(<<cooldown.value, 1000>>)>>]

(* ------------------------------ inputs --------------------------------- *)

Xs(k) == [i \in 1..k |-> "x"]

\* Spellings of one canonical name: itself, lower case, upper case, and
\* near misses (characters dropped at either end, characters appended).
Spellings(v) ==
  {v, Lower(v), Upper(v)}
  \cup {SubSeq(v, 1, Len(v) - k) : k \in 1..MaxAffix}
  \cup {SubSeq(v, 1 + k, Len(v)) : k \in 1..MaxAffix}
  \cup {v \o Xs(k) : k \in 1..MaxAffix}

NameInputs ==
  UNION {Spellings(Service[i].value) : i \in 1..Len(Service)}
  \cup {<<>>, <<"n","o","t","-","a","-","s","e","r","v","i","c","e">>,
        <<"a","r","i","s","t","o","t","e">>}

Models == {<<"g","p","t">>, <<"M","2">>}
ApiKeys == {<<>>, <<"s","k">>}
Prompts == {<<>>, <<"h","i">>}

(* ------------------------------- state --------------------------------- *)

VARIABLES
  facade,     \* the LLMCaller instance: service, model, api_key
  ctor,       \* the constructor invocation: its arguments and how it ended
  lookup,     \* the latest Service.from_str invocation: argument and result
  _handlers,  \* LLMCaller._handlers, the class-level registry
  pc,         \* per thread: where it is inside call / wait_cooldown
  frame,      \* per thread: the locals and effects of its current or last operation
  calls,      \* number of call() invocations started
  sends       \* number of requests sent to a provider

vars == <<facade, ctor, lookup, _handlers, pc, frame, calls, sends>>

NewFrame(op, prompt) ==
  [op |-> op, prompt |-> prompt, handler |-> "none", ran |-> <<>>, provider |-> NoOutcome,
   sent |-> <<>>, raised |-> NoOutcome, result |-> NoOutcome,
   printed |-> <<>>, slept |-> <<>>]

Init ==
  /\ facade = NoFacade
  /\ ctor = [tag |-> "none"]
  /\ lookup = [tag |-> "none"]
  /\ _handlers = CollectHandlers(ClassDict)
  /\ pc = [t \in Threads |-> "idle"]
  /\ frame = [t \in Threads |-> NewFrame("none", <<>>)]
  /\ calls = 0
  /\ sends = 0

(* ------------------------------ actions -------------------------------- *)

\* Service.from_str(name), called directly.
FromStrCall(name) ==
  /\ ctor.tag = "none"
  /\ lookup' = [tag |-> "called", arg |-> name, res |-> from_str(name)]
  /\ UNCHANGED <<facade, ctor, _handlers, pc, frame, calls, sends>>

\* LLMCaller(service, model, api_key)
Construct(service, model, api_key) ==
  /\ ctor.tag = "none"
  /\ LET r == __init__(service, model, api_key) IN
     /\ lookup' = r.lookup
     /\ facade' = IF r.result.tag = "return" THEN r.result.value ELSE NoFacade
     /\ ctor' = [tag |-> "called", service |-> service, model |-> model,
                 api_key |-> api_key,
                 result |-> IF r.result.tag = "raise" THEN r.result ELSE Return(PyNone)]
  /\ UNCHANGED <<_handlers, pc, frame, calls, sends>>

\* call(prompt): enter the try block and run _dispatch up to the handler.
Call(t, prompt) ==
  /\ facade.tag = "LLMCaller"
  /\ pc[t] = "idle"
  /\ calls < MaxCalls
  /\ calls' = calls + 1
  /\ LET d == _dispatch(facade, _handlers) IN
     /\ frame' = [frame EXCEPT ![t] =
                    [NewFrame("call", prompt) EXCEPT !.handler = d.handler, !.raised = d.error]]
     /\ pc' = [pc EXCEPT ![t] = IF d.handler = "none" THEN "except" ELSE "handler"]
  /\ UNCHANGED <<facade, ctor, lookup, _handlers, sends>>

\* The handler has run to its end on the provider's answer.
HandlerDone(t, name, answer, ran) ==
  /\ frame' = [frame EXCEPT ![t] =
                 [@ EXCEPT !.ran = Append(@, name), !.provider = answer, !.sent = ran.sent,
                           !.raised = ran.result, !.printed = @ \o ran.printed]]
  /\ pc' = [pc EXCEPT ![t] = IF ran.result.tag = "raise" THEN "except" ELSE "return"]
  /\ sends' = sends + Len(ran.sent)
  /\ UNCHANGED <<facade, ctor, lookup, _handlers, calls>>

CallOpenAI(t) ==
  /\ pc[t] = "handler"
  /\ frame[t].handler = "_call_openai"
  /\ \E answer \in OpenAIOutcomes :
       HandlerDone(t, "_call_openai", answer, _call_openai(facade, frame[t].prompt, answer))

CallAnthropic(t) ==
  /\ pc[t] = "handler"
  /\ frame[t].handler = "_call_anthropic"
  /\ \E answer \in AnthropicOutcomes :
       HandlerDone(t, "_call_anthropic", answer, _call_anthropic(facade, frame[t].prompt, answer))

CallGoogle(t) ==
  /\ pc[t] = "handler"
  /\ frame[t].handler = "_call_google"
  /\ \E answer \in GoogleOutcomes :
       HandlerDone(t, "_call_google", answer, _call_google(facade, frame[t].prompt, answer))

CallAristote(t) ==
  /\ pc[t] = "handler"
  /\ frame[t].handler = "_call_aristote"
  /\ \E answer \in AristoteOutcomes :
       HandlerDone(t, "_call_aristote", answer, _call_aristote(facade, frame[t].prompt, answer))

CallXai(t) ==
  /\ pc[t] = "handler"
  /\ frame[t].handler = "_call_xai"
  /\ \E answer \in XaiOutcomes :
       HandlerDone(t, "_call_xai", answer, _call_xai(facade, frame[t].prompt, answer))

\* call: `return self._dispatch(prompt)`
CallReturn(t) ==
  /\ pc[t] = "return"
  /\ frame' = [frame EXCEPT ![t] = [@ EXCEPT !.result = frame[t].raised]]
  /\ pc' = [pc EXCEPT ![t] = "idle"]
  /\ UNCHANGED <<facade, ctor, lookup, _handlers, calls, sends>>

\* call: `except Exception as e: print(...); raise e`
CallExcept(t) ==
  /\ pc[t] = "except"
  /\ LET x == call_except(facade, frame[t].raised.exc) IN
     frame' = [frame EXCEPT ![t] =
                 [@ EXCEPT !.result = x.result, !.printed = @ \o x.printed]]
  /\ pc' = [pc EXCEPT ![t] = "idle"]
  /\ UNCHANGED <<facade, ctor, lookup, _handlers, calls, sends>>

\* wait_cooldown(): look the cooldown up and start sleeping.
WaitCooldown(t) ==
  /\ facade.tag = "LLMCaller"
  /\ pc[t] = "idle"
  /\ LET w == wait_cooldown(facade) IN
     /\ frame' = [frame EXCEPT ![t] =
                    [NewFrame("wait_cooldown", <<>>) EXCEPT
                       !.slept = w.slept,
                       !.result = IF w.result.tag = "raise" THEN w.result ELSE NoOutcome]]
     /\ pc' = [pc EXCEPT ![t] = IF w.result.tag = "raise" THEN "idle" ELSE "sleeping"]
  /\ UNCHANGED <<facade, ctor, lookup, _handlers, calls, sends>>

\* time.sleep returns, and with it wait_cooldown.
WakeUp(t) ==
  /\ pc[t] = "sleeping"
  /\ frame' = [frame EXCEPT ![t] = [@ EXCEPT !.result = Return(PyNone)]]
  /\ pc' = [pc EXCEPT ![t] = "idle"]
  /\ UNCHANGED <<facade, ctor, lookup, _handlers, calls, sends>>

Next ==
  \/ \E name \in NameInputs : FromStrCall(name)
  \/ \E name \in NameInputs, model \in Models, api_key \in ApiKeys :
       Construct(name, model, api_key)
  \/ \E t \in Threads, prompt \in Prompts : Call(t, prompt)
  \/ \E t \in Threads : CallOpenAI(t)
  \/ \E t \in Threads : CallAnthropic(t)
  \/ \E t \in Threads : CallGoogle(t)
  \/ \E t \in Threads : CallAristote(t)
  \/ \E t \in Threads : CallXai(t)
  \/ \E t \in Threads : CallReturn(t)
  \/ \E t \in Threads : CallExcept(t)
  \/ \E t \in Threads : WaitCooldown(t)
  \/ \E t \in Threads : WakeUp(t)

Spec == Init /\ [][Next]_vars

(* ------------------------------ properties ----------------------------- *)

\* Thread t has completed a call(): its result is the value returned or the
\* exception raised to the caller.
CallDone(t) == pc[t] = "idle" /\ frame[t].op = "call" /\ frame[t].result.tag # "none"

\* The lines printed by call itself during t's operation.
LinesByCall(t) == SelectSeq(frame[t].printed, LAMBDA p : p.by = "call")

\* Two characters that are the same letter, whatever their case.
SameLetter(x, y) ==
  x = y \/ \E i \in 1..Len(UpperChars) : {x, y} = {UpperChars[i], LowerChars[i]}

EqualIgnoringCase(a, b) ==
  Len(a) = Len(b) /\ \A i \in 1..Len(a) : SameLetter(a[i], b[i])

ContainsIgnoringCase(hay, needle) ==
  \E k \in 0..Len(hay) :
    /\ k + Len(needle) <= Len(hay)
    /\ \A i \in 1..Len(needle) : SameLetter(hay[k + i], needle[i])

\* A provider failure that signals overload: a structured resource-exhausted
\* or rate-limit error, or any error whose message mentions "overloaded".
OverloadSignal(e) ==
  \/ e.kind \in {"ResourceExhausted", "TooManyRequests", "RateLimitError"}
  \/ ContainsIgnoringCase(e.msg, Overloaded)

\* C1: when the adapter selected by call(prompt) raises, call prints exactly
\* one line (service name and message) and then fails with that same error:
\* same kind, same message, same cause; never a returned value.
C1_CallReraisesAdapterError ==
  \A t \in Threads :
    /\ (frame[t].op = "call" /\ pc[t] # "idle") => Len(LinesByCall(t)) = 0
    /\ (CallDone(t) /\ frame[t].raised.tag = "raise") =>
         /\ frame[t].result.tag = "raise"
         /\ frame[t].result.exc = frame[t].raised.exc
         /\ Len(LinesByCall(t)) = 1
         /\ frame[t].printed[Len(frame[t].printed)].by = "call"
         /\ LinesByCall(t)[1].line =
              CallLogPrefix \o ServiceStr(facade.service) \o CallLogInfix
                \o frame[t].raised.exc.msg

\* C1 witness: a call whose adapter raised has completed by raising.
C1_Witness ==
  \E t \in Threads :
    /\ CallDone(t)
    /\ frame[t].ran # <<>>
    /\ frame[t].raised.tag = "raise"
    /\ frame[t].result.tag = "raise"

\* C2 (as claimed): for every adapter, a provider failure that signals
\* overload makes call(prompt) fail with ModelOverloadedError.
C2_OverloadBecomesModelOverloadedError ==
  \A t \in Threads :
    (CallDone(t) /\ frame[t].provider.tag = "raise" /\ OverloadSignal(frame[t].provider.exc)) =>
      /\ frame[t].result.tag = "raise"
      /\ frame[t].result.exc.kind = "ModelOverloadedError"

\* C3 (as claimed): for every adapter, a provider failure that is no overload
\* signal makes call(prompt) fail with ApiCallError whose message contains the
\* original message and whose cause is the original error.
C3_OtherFailureBecomesApiCallError ==
  \A t \in Threads :
    (CallDone(t) /\ frame[t].provider.tag = "raise" /\ ~OverloadSignal(frame[t].provider.exc)) =>
      /\ frame[t].result.tag = "raise"
      /\ frame[t].result.exc.kind = "ApiCallError"
      /\ Contains(frame[t].result.exc.msg, frame[t].provider.exc.msg)
      /\ frame[t].result.exc.cause = frame[t].provider.exc

\* A response that carries no text: empty choices, a null content, no text
\* block, a null text, or a JSON body with a part of the path missing.
NoExtractableText(handler, body) ==
  CASE handler = "_call_openai" ->
         Len(body.choices) = 0 \/ body.choices[1].message.content = PyNone
    [] handler = "_call_anthropic" ->
         \A i \in 1..Len(body.content) : body.content[i].type # "text"
    [] handler = "_call_google" -> body.text = PyNone
    [] handler = "_call_aristote" ->
         \/ body.choices = PyNone
         \/ (body.choices # PyNone /\ Len(body.choices.items) = 0)
         \/ (body.choices # PyNone /\ Len(body.choices.items) > 0 /\
             body.choices.items[1].message = PyNone)
         \/ (body.choices # PyNone /\ Len(body.choices.items) > 0 /\
             body.choices.items[1].message # PyNone /\
             body.choices.items[1].message.content = PyNone)
    [] OTHER -> FALSE

\* C4 (as claimed): for every adapter, a successful provider call whose
\* response has no extractable text makes call(prompt) fail with ApiCallError.
C4_NoTextBecomesApiCallError ==
  \A t \in Threads :
    (CallDone(t) /\ frame[t].provider.tag = "response"
       /\ NoExtractableText(frame[t].handler, frame[t].provider.body)) =>
      /\ frame[t].result.tag = "raise"
      /\ frame[t].result.exc.kind = "ApiCallError"

\* C5 (as claimed): every error kind the facade and its adapters raise by a
\* name taken from the error taxonomy is defined by errors.py, and
\* ModelOverloadedError is one of its classes.
C5_RaisedKindsAreDefined ==
  /\ \A t \in Threads :
       (frame[t].result.tag = "raise" /\ frame[t].result.exc.kind \in NamedErrorKinds) =>
         frame[t].result.exc.kind \in ErrorsModule
  /\ (ctor.tag = "called" /\ ctor.result.tag = "raise") =>
       ctor.result.exc.kind \in ErrorsModule

\* The Service members whose canonical name equals n ignoring letter case.
Canonical(n) == {S \in ServiceNames : EqualIgnoringCase(n, ServiceStr(S))}

\* res is what the claim expects of from_str(n).
ResolvesAsClaimed(n, res) ==
  IF Canonical(n) = {}
  THEN res.tag = "raise" /\ res.exc.kind = "InvalidServiceError"
  ELSE res.tag = "return" /\ Canonical(n) = {res.value}

DeclaredFor(S) ==
  {ClassDict[n].name : n \in {m \in 1..Len(ClassDict) :
      /\ ClassDict[m].decorated
      /\ \E k \in 1..Len(ClassDict[m].services) : ClassDict[m].services[k] = S}}

\* C7: the registry maps every Service to exactly the adapter declared for
\* it, or to none; call(prompt) runs only the adapter registered for the
\* facade's own service, at most once; and with none registered it fails
\* with a RuntimeError naming the service, never returning a value.
C7_RegistryAndDispatch ==
  /\ DOMAIN _handlers \subseteq ServiceNames
  /\ \A S \in ServiceNames :
       IF DeclaredFor(S) = {} THEN S \notin DOMAIN _handlers
       ELSE S \in DOMAIN _handlers /\ DeclaredFor(S) = {_handlers[S]}
  /\ \A t \in Threads : frame[t].op = "call" =>
       IF facade.service \in DOMAIN _handlers
       THEN /\ frame[t].handler = _handlers[facade.service]
            /\ \A i \in 1..Len(frame[t].ran) : DeclaredFor(facade.service) = {frame[t].ran[i]}
            /\ Len(frame[t].ran) <= 1
            /\ CallDone(t) => Len(frame[t].ran) = 1
       ELSE /\ frame[t].ran = <<>>
            /\ frame[t].raised.tag = "raise"
            /\ frame[t].raised.exc.kind = "RuntimeError"
            /\ Contains(frame[t].raised.exc.msg, ServiceStr(facade.service))
            /\ CallDone(t) => frame[t].result = frame[t].raised

\* C7 witness: a completed call on an xAI facade ran the xAI adapter.
C7_Witness ==
  \E t \in Threads :
    /\ CallDone(t)
    /\ facade.service = "xAI"
    /\ frame[t].ran = <<"_call_xai">>

\* The facade holds what the constructor was given.
AsConstructed ==
  facade.tag = "LLMCaller" =>
    /\ facade.service = lookup.res.value
    /\ facade.model = ctor.model
    /\ facade.api_key = ctor.api_key
    /\ _handlers = CollectHandlers(ClassDict)

\* A thread that is idle can start a further operation, and one inside an
\* operation can finish it.
Usable ==
  \A t \in Threads : facade.tag = "LLMCaller" =>
    IF pc[t] = "idle"
    THEN /\ ENABLED WaitCooldown(t)
         /\ calls < MaxCalls => \A p \in Prompts : ENABLED Call(t, p)
    ELSE \/ ENABLED CallOpenAI(t) \/ ENABLED CallAnthropic(t) \/ ENABLED CallGoogle(t)
         \/ ENABLED CallAristote(t) \/ ENABLED CallXai(t)
         \/ ENABLED CallReturn(t) \/ ENABLED CallExcept(t) \/ ENABLED WakeUp(t)

\* C8: once constructed the facade never changes: in every state its
\* service, model and api_key are the constructor's (model and api_key
\* verbatim), no step of call or wait_cooldown, in any interleaving, changes
\* the instance or the registry, and the instance stays usable.
C8_FacadeImmutable ==
  /\ [](AsConstructed /\ Usable)
  /\ [][(facade.tag = "LLMCaller" => facade' = facade) /\ _handlers' = _handlers]_vars

\* C8 witness: both threads have completed an operation, one of them a call
\* that failed, on a facade whose model has an upper-case letter.
C8_Witness ==
  /\ facade.tag = "LLMCaller"
  /\ facade.model = <<"M","2">>
  /\ CallDone("t1") /\ frame["t1"].result.tag = "raise"
  /\ pc["t2"] = "idle" /\ frame["t2"].op = "wait_cooldown"

\* C9: call never sleeps; wait_cooldown finds an entry for the facade's
\* service, sleeps exactly once for that many milliseconds (0 for
\* AristoteOnMyDocker, 5000 for the others) and returns.
C9_CooldownOnlyInWaitCooldown ==
  \A t \in Threads :
    /\ pc[t] = "sleeping" => frame[t].op = "wait_cooldown"
    /\ frame[t].op = "call" => frame[t].slept = <<>>
    /\ frame[t].op = "wait_cooldown" =>
         /\ frame[t].result.tag # "raise"
         /\ frame[t].slept =
              <<IF facade.service = "AristoteOnMyDocker" THEN 0 ELSE 5000>>
         /\ pc[t] = "idle" => frame[t].result = Return(PyNone)

\* C9 witness: a wait_cooldown that slept 5000 ms has returned, and a call
\* on the same facade has completed.
C9_Witness ==
  /\ pc["t1"] = "idle" /\ frame["t1"].op = "wait_cooldown"
  /\ frame["t1"].slept = <<5000>>
  /\ CallDone("t2")

\* C10: a call sends at most one request to the provider, whatever the
\* provider answers; over a behaviour no more requests are sent than
\* calls were started.
C10_NoRetries ==
  /\ sends <= calls
  /\ \A t \in Threads :
       /\ Len(frame[t].sent) <= 1
       /\ \A i \in 1..Len(frame[t].sent) : frame[t].sent[i] = Request(facade, frame[t].prompt)

\* C10 witness: a Google call that met an overload signal has failed with
\* ModelOverloadedError after one request, and a second call was made.
C10_Witness ==
  /\ calls = 2
  /\ sends = 2
  /\ \E t \in Threads :
       /\ CallDone(t)
       /\ frame[t].handler = "_call_google"
       /\ frame[t].provider.tag = "raise"
       /\ frame[t].result.exc.kind = "ModelOverloadedError"
       /\ Len(frame[t].sent) = 1

====
